---- MODULE Spec2Model ----
(***************************************************************************)
(* Model of src/src/app/page.tsx: the Tardy working-time tracker.          *)
(*                                                                         *)
(* One React component holds the work session (clockInTime, clockOutTime,  *)
(* totalWorkedToday, weeklyHours, hourlyRate) and the displayed clock      *)
(* (currentTime); four effects load it from localStorage, save it back,    *)
(* run the 1-second display clock and run the 1-second worked-time timer.  *)
(*                                                                         *)
(* Representation.                                                         *)
(*  - A Date is its epoch time in whole seconds (UTC); milliseconds are    *)
(*    not modelled.  `Date | null` is <<t>> or Null (the empty tuple).     *)
(*  - An ISO-8601 string is the tuple <<day, hour, minute, second>> of its *)
(*    UTC fields, the day being the number of days since 1 Jan 1970.       *)
(*  - A number of hours is held in units of 1/HourScale hour.              *)
(*  - The JSON text under STORAGE_KEY is the sequence of its <<key,value>> *)
(*    members in the order JSON.stringify emits them; no item is Null.     *)
(*    A text cut short ends in a member that is not a pair, and the empty  *)
(*    string is the text of one empty member: JSON.parse rejects both.     *)
(*  - A text on the screen is the sequence of its characters; the result   *)
(*    of an earnings sum is held in units of 1/HourScale dollar.           *)
(*  - Scheduling follows React 18: a click or input event runs its         *)
(*    handler, the render and the effects of that render in one task; an   *)
(*    update made by a timer callback or by an effect is rendered at once  *)
(*    and its effects stay pending until flushed; pending effects are      *)
(*    flushed before any other event is handled.                           *)
(***************************************************************************)
EXTENDS Integers, Sequences, FiniteSets, TLC

VARIABLES
    view,              \* "unmounted" | "rendered" (first render, effects not yet run) | "mounted"
                       \* | "failed" (an effect threw)
    pending,           \* state hooks changed by a render whose effects have not run yet
    now,               \* the wall clock: what `new Date()` returns
    tz,                \* local time minus UTC, in seconds
    currentTime,       \* useState(new Date())
    clockInTime,       \* useState<Date | null>(null)
    clockOutTime,      \* useState<Date | null>(null)
    totalWorkedToday,  \* useState(0)
    weeklyHours,       \* useState<number[]>([0, 0, 0, 0, 0])
    hourlyRate,        \* useState(15)
    storage,           \* localStorage.getItem(STORAGE_KEY): Null or the JSON text
    displayTimer,      \* the interval of the display-clock effect is scheduled
    workedInterval,    \* Null, or <<t>>: the worked-time interval, set or last fired at t
    lastSaved,         \* history: the StoredData last handed to saveToStorage, or Null
    displayIntervals,  \* number of scheduled intervals that run the display-clock callback
    workedIntervals,   \* number of scheduled intervals that run the worked-time callback
    screen             \* the texts rendered: elapsed time and weekly earnings

vars == <<view, pending, now, tz, currentTime, clockInTime, clockOutTime,
          totalWorkedToday, weeklyHours, hourlyRate, storage, displayTimer,
          workedInterval, lastSaved, displayIntervals, workedIntervals, screen>>

session == <<clockInTime, clockOutTime, totalWorkedToday, weeklyHours, hourlyRate>>

(***************************************************************************)
(* Bounds of the model.                                                    *)
(***************************************************************************)
\* how many of the days of DayOrder the wall clock visits
NumDays == 3
\* cap on totalWorkedToday (worked-time ticks stop there)
MaxTicks == 2

\* epoch days, 1 Jan 1970 (a Thursday) being day 0:
\* Mon 5 Jan, Fri 9 Jan, Sat 10 Jan, Sun 11 Jan, Tue 6 Jan, Mon 12 Jan 1970
DayOrder == <<4, 8, 9, 10, 5, 11>>
Days == {DayOrder[i] : i \in 1..NumDays}
\* local times of day the wall clock visits: 09:00:00, 16:59:59, 17:00:00
ClockTimes == {9 * 3600, 16 * 3600 + 59 * 60 + 59, 17 * 3600}
TzOffsets == {0, 8 * 3600}
Instants(z) == {d * 86400 + c - z : d \in Days, c \in ClockTimes}
\* values typed into the hourly-rate input ("" gives Number("") = 0)
Rates == {0, 15, 20, -1}

Null == <<>>
HourScale == 3600

(***************************************************************************)
(* Date, date-fns and JSON.                                                *)
(***************************************************************************)
getHours(t) == ((t + tz) % 86400) \div 3600
getDay(t) == (((t + tz) \div 86400) + 4) % 7
\* the ISO string built from the local fields instead of the UTC ones
toISOString_local(t) ==
    <<(t + tz) \div 86400, ((t + tz) % 86400) \div 3600, ((t + tz) % 3600) \div 60, (t + tz) % 60>>
toISOString(t) == <<t \div 86400, (t % 86400) \div 3600, (t % 3600) \div 60, t % 60>>
DateParse(s) == s[1] * 86400 + s[2] * 3600 + s[3] * 60 + s[4]
differenceInSeconds(later, earlier) == later - earlier

Digits == <<"0", "1", "2", "3", "4", "5", "6", "7", "8", "9">>
\* Number.prototype.toString of a non-negative integer
RECURSIVE toString(_)
toString(n) ==
    IF n < 10 THEN <<Digits[n + 1]>> ELSE toString(n \div 10) \o <<Digits[(n % 10) + 1]>>
\* String.prototype.padStart with a one-character filler
RECURSIVE padStart(_, _, _)
padStart(s, targetLength, c) ==
    IF Len(s) >= targetLength THEN s ELSE padStart(<<c>> \o s, targetLength, c)
\* Number.prototype.toFixed(2) of x / HourScale: the nearest hundredth, the
\* larger one of two equally near, the sign of a negative number kept
toFixed2(x) ==
    LET a == IF x < 0 THEN -x ELSE x
        n == (2 * 100 * a + HourScale) \div (2 * HourScale)
    IN (IF x < 0 THEN <<"-">> ELSE <<>>)
         \o toString(n \div 100) \o <<".">> \o padStart(toString(n % 100), 2, "0")

JSONstringify(data) ==
    << <<"clockInTime", data.clockInTime>>,
       <<"clockOutTime", data.clockOutTime>>,
       <<"totalWorkedToday", data.totalWorkedToday>>,
       <<"weeklyHours", data.weeklyHours>>,
       <<"hourlyRate", data.hourlyRate>> >>
Member(text, key) == text[CHOOSE i \in 1..Len(text) : text[i][1] = key][2]
\* JSON.parse throws a SyntaxError on a text with an incomplete member
JSONparseThrows(text) == \E i \in 1..Len(text) : Len(text[i]) # 2
SyntaxError == [error |-> "SyntaxError"]
\* the outcome of a call is an exception
Threw(outcome) == "error" \in DOMAIN outcome
\* the empty string ""
EmptyText == << <<>> >>
\* !stored: getItem returned null or the empty string
Falsy(stored) == stored = Null \/ stored = EmptyText
JSONparse(text) ==
    [clockInTime      |-> Member(text, "clockInTime"),
     clockOutTime     |-> Member(text, "clockOutTime"),
     totalWorkedToday |-> Member(text, "totalWorkedToday"),
     weeklyHours      |-> Member(text, "weeklyHours"),
     hourlyRate       |-> Member(text, "hourlyRate")]

(***************************************************************************)
(* Persistence adapter.                                                    *)
(***************************************************************************)
\* the defaults with a rate of 0
getInitialData_rateZero ==
    [clockInTime      |-> Null,
     clockOutTime     |-> Null,
     totalWorkedToday |-> 0,
     weeklyHours      |-> <<0, 0, 0, 0, 0>>,
     hourlyRate       |-> 0]
getInitialData ==
    [clockInTime      |-> Null,
     clockOutTime     |-> Null,
     totalWorkedToday |-> 0,
     weeklyHours      |-> <<0, 0, 0, 0, 0>>,
     hourlyRate       |-> 15]

\* lines 41-50: the parsed record with its timestamps re-encoded
parsedData(stored) ==
    LET data == JSONparse(stored)
    IN [data EXCEPT
          !.clockInTime  = IF data.clockInTime # Null
                           THEN toISOString(DateParse(data.clockInTime))
                           ELSE Null,
          !.clockOutTime = IF data.clockOutTime # Null
                           THEN toISOString(DateParse(data.clockOutTime))
                           ELSE Null]

\* a load that catches the parse error and returns the defaults
loadStoredData_fallback(stored) ==
    IF Falsy(stored) \/ JSONparseThrows(stored)
    THEN getInitialData
    ELSE parsedData(stored)
\* the record loaded, or the SyntaxError that JSON.parse throws
loadStoredData(stored) ==
    IF Falsy(stored)
    THEN getInitialData
    ELSE IF JSONparseThrows(stored)
         THEN SyntaxError
         ELSE parsedData(stored)

saveToStorage(data) == JSONstringify(data)

\* the record the save effect builds from the rendered state
dataToStore(ci, co, tw, wh, hr) ==
    [clockInTime      |-> IF ci # Null THEN toISOString(ci[1]) ELSE Null,
     clockOutTime     |-> IF co # Null THEN toISOString(co[1]) ELSE Null,
     totalWorkedToday |-> tw,
     weeklyHours      |-> wh,
     hourlyRate       |-> hr]

(***************************************************************************)
(* Effects and their dependency lists.                                     *)
(***************************************************************************)
\* the state hooks of the session
Hooks == {"clockInTime", "clockOutTime", "totalWorkedToday", "weeklyHours", "hourlyRate"}
\* the save effect with hourlyRate left out of its dependency list
SaveDeps_noRate == {"clockInTime", "clockOutTime", "totalWorkedToday", "weeklyHours"}
SaveDeps == {"clockInTime", "clockOutTime", "totalWorkedToday", "weeklyHours", "hourlyRate"}
WorkedDeps == {"clockInTime", "clockOutTime"}

\* the worked-time effect without the test of clockOutTime
WorkedEffect_noClockOutTest(ci, co) == IF ci # Null THEN <<now>> ELSE Null
\* the worked-time effect: the cleanup clears the interval of the previous
\* run, then an interval is set when a session is active
WorkedEffect(ci, co) == IF ci # Null /\ co = Null THEN <<now>> ELSE Null

\* a worked-time effect that returns no cleanup
WorkedCleanup_none(handle, scheduled) == scheduled
\* the cleanup of the worked-time effect: if (workedInterval) clearInterval(workedInterval)
WorkedCleanup(handle, scheduled) == IF handle # Null THEN scheduled - 1 ELSE scheduled
\* the cleanup of the display-clock effect: clearInterval(timer)
DisplayCleanup(handle, scheduled) == IF handle THEN scheduled - 1 ELSE scheduled

\* the effects of a committed render in which the hooks `ch` changed, run on
\* the rendered state
RunEffects(ch, ci, co, tw, wh, hr) ==
    /\ IF ch \cap SaveDeps # {}
       THEN /\ storage' = saveToStorage(dataToStore(ci, co, tw, wh, hr))
            /\ lastSaved' = <<ci, co, tw, wh, hr>>
       ELSE UNCHANGED <<storage, lastSaved>>
    /\ IF ch \cap WorkedDeps # {}
       THEN /\ workedInterval' = WorkedEffect(ci, co)
            /\ workedIntervals' = WorkedCleanup(workedInterval, workedIntervals)
                                    + (IF WorkedEffect(ci, co) # Null THEN 1 ELSE 0)
       ELSE UNCHANGED <<workedInterval, workedIntervals>>

(***************************************************************************)
(* Render: the derived values.                                             *)
(***************************************************************************)
\* the hours taken modulo 24
formatTime_mod24(seconds) ==
    LET hours == (seconds \div 3600) % 24
        minutes == (seconds % 3600) \div 60
        remainingSeconds == seconds % 60
    IN padStart(toString(hours), 2, "0") \o <<":">>
         \o padStart(toString(minutes), 2, "0") \o <<":">>
         \o padStart(toString(remainingSeconds), 2, "0")
formatTime(seconds) ==
    LET hours == seconds \div 3600
        minutes == (seconds % 3600) \div 60
        remainingSeconds == seconds % 60
    IN padStart(toString(hours), 2, "0") \o <<":">>
         \o padStart(toString(minutes), 2, "0") \o <<":">>
         \o padStart(toString(remainingSeconds), 2, "0")

\* weeklyHours.reduce((total, hours) => total + hours * hourlyRate, 0)
RECURSIVE reduceEarnings(_, _, _)
reduceEarnings(hoursLeft, rate, total) ==
    IF hoursLeft = <<>>
    THEN total
    ELSE reduceEarnings(Tail(hoursLeft), rate, total + Head(hoursLeft) * rate)
\* the sum taken without the rate
calculateWeeklyEarnings_noRate(wh, hr) == toFixed2(reduceEarnings(wh, 1, 0))
calculateWeeklyEarnings(wh, hr) == toFixed2(reduceEarnings(wh, hr, 0))

Render(tw, wh, hr) ==
    [elapsed |-> formatTime(tw), weekly |-> calculateWeeklyEarnings(wh, hr)]
\* nothing is on the screen
NoScreen == [elapsed |-> <<>>, weekly |-> <<>>]

(***************************************************************************)
(* Render: the button guards.                                              *)
(***************************************************************************)
isWorkingHours == getHours(currentTime) >= 9 /\ getHours(currentTime) < 17
isWeekday == getDay(currentTime) > 0 /\ getDay(currentTime) < 6
\* the Clock In button without the test of clockInTime
ClockInDisabled_noSessionTest == ~isWorkingHours \/ ~isWeekday
ClockInDisabled == clockInTime # Null \/ ~isWorkingHours \/ ~isWeekday
\* the Clock Out button without the test of clockInTime
ClockOutDisabled_noSessionTest == clockOutTime # Null
ClockOutDisabled == clockInTime = Null \/ clockOutTime # Null

\* events are handled by a mounted view with no effects pending
Ready == view = "mounted" /\ pending = {}

(***************************************************************************)
(* Initial state: nothing stored, no view.                                 *)
(***************************************************************************)
Init ==
    /\ view = "unmounted"
    /\ pending = {}
    /\ tz \in TzOffsets
    /\ now \in Instants(tz)
    /\ currentTime = now
    /\ clockInTime = Null
    /\ clockOutTime = Null
    /\ totalWorkedToday = 0
    /\ weeklyHours = <<0, 0, 0, 0, 0>>
    /\ hourlyRate = 15
    /\ storage = Null
    /\ displayTimer = FALSE
    /\ workedInterval = Null
    /\ lastSaved = Null
    /\ displayIntervals = 0
    /\ workedIntervals = 0
    /\ screen = NoScreen

(***************************************************************************)
(* Environment: the wall clock.                                            *)
(***************************************************************************)
AdvanceTime ==
    /\ \E t \in Instants(tz) : t > now /\ now' = t
    /\ UNCHANGED <<view, pending, tz, currentTime, session, storage,
                   displayTimer, workedInterval, lastSaved,
                   displayIntervals, workedIntervals, screen>>

(***************************************************************************)
(* Component life cycle.                                                   *)
(***************************************************************************)
\* first render of a fresh view: every useState takes its initial value
Mount ==
    /\ view = "unmounted"
    /\ view' = "rendered"
    /\ currentTime' = now
    /\ clockInTime' = Null
    /\ clockOutTime' = Null
    /\ totalWorkedToday' = 0
    /\ weeklyHours' = <<0, 0, 0, 0, 0>>
    /\ hourlyRate' = 15
    /\ screen' = Render(totalWorkedToday', weeklyHours', hourlyRate')
    /\ UNCHANGED <<pending, now, tz, storage, displayTimer, workedInterval, lastSaved,
                   displayIntervals, workedIntervals>>

\* the effects of the first render, in source order: the load effect reads
\* the record and queues the state updates, the save effect writes the
\* rendered state, the display clock starts, the worked-time effect sees the
\* rendered state; then the queued updates are rendered
MountEffects ==
    /\ view = "rendered"
    /\ ~Threw(loadStoredData(storage))
    /\ LET storedData == loadStoredData(storage)
       IN /\ clockInTime' = IF storedData.clockInTime # Null
                            THEN <<DateParse(storedData.clockInTime)>>
                            ELSE clockInTime
          /\ clockOutTime' = IF storedData.clockOutTime # Null
                             THEN <<DateParse(storedData.clockOutTime)>>
                             ELSE clockOutTime
          /\ totalWorkedToday' = storedData.totalWorkedToday
          /\ weeklyHours' = storedData.weeklyHours
          /\ hourlyRate' = storedData.hourlyRate
          /\ pending' = {"weeklyHours"}
                \cup (IF storedData.clockInTime # Null THEN {"clockInTime"} ELSE {})
                \cup (IF storedData.clockOutTime # Null THEN {"clockOutTime"} ELSE {})
                \cup (IF storedData.totalWorkedToday # totalWorkedToday
                      THEN {"totalWorkedToday"} ELSE {})
                \cup (IF storedData.hourlyRate # hourlyRate THEN {"hourlyRate"} ELSE {})
    /\ RunEffects(Hooks, clockInTime, clockOutTime, totalWorkedToday,
                  weeklyHours, hourlyRate)
    /\ displayTimer' = TRUE
    /\ displayIntervals' = displayIntervals + 1
    /\ screen' = Render(totalWorkedToday', weeklyHours', hourlyRate')
    /\ view' = "mounted"
    /\ UNCHANGED <<now, tz, currentTime>>

\* the load effect throws: the effects after it do not run and React
\* removes the tree
MountEffectsThrow ==
    /\ view = "rendered"
    /\ Threw(loadStoredData(storage))
    /\ view' = "failed"
    /\ screen' = NoScreen
    /\ UNCHANGED <<pending, now, tz, currentTime, session, storage,
                   displayTimer, workedInterval, lastSaved,
                   displayIntervals, workedIntervals>>

\* the effects left pending by a render that no click or input caused
FlushPassiveEffects ==
    /\ view = "mounted"
    /\ pending # {}
    /\ RunEffects(pending, clockInTime, clockOutTime, totalWorkedToday,
                  weeklyHours, hourlyRate)
    /\ pending' = {}
    /\ UNCHANGED <<view, now, tz, currentTime, session, displayTimer,
                   displayIntervals, screen>>

\* the view goes away (navigation, tab closed): both intervals are cleared
\* and the component state is discarded
Unmount ==
    /\ view # "unmounted"
    /\ view' = "unmounted"
    /\ pending' = {}
    /\ displayTimer' = FALSE
    /\ displayIntervals' = DisplayCleanup(displayTimer, displayIntervals)
    /\ workedInterval' = Null
    /\ workedIntervals' = WorkedCleanup(workedInterval, workedIntervals)
    /\ screen' = NoScreen
    /\ clockInTime' = Null
    /\ clockOutTime' = Null
    /\ totalWorkedToday' = 0
    /\ weeklyHours' = <<0, 0, 0, 0, 0>>
    /\ hourlyRate' = 15
    /\ UNCHANGED <<now, tz, currentTime, storage, lastSaved>>

(***************************************************************************)
(* Timers.                                                                 *)
(***************************************************************************)
\* setInterval(() => setCurrentTime(new Date()), 1000)
DisplayTick ==
    /\ Ready
    /\ displayTimer
    /\ displayIntervals > 0
    /\ currentTime # now
    /\ currentTime' = now
    /\ UNCHANGED <<view, pending, now, tz, session, storage, displayTimer,
                   workedInterval, lastSaved, displayIntervals, workedIntervals,
                   screen>>

\* an updater that counts every tick twice
tickUpdater_twice(prevTotal) == prevTotal + 2
\* (prevTotal) => prevTotal + 1
tickUpdater(prevTotal) == prevTotal + 1

\* setInterval(() => setTotalWorkedToday((prevTotal) => prevTotal + 1), 1000)
WorkedTick ==
    /\ Ready
    /\ workedInterval # Null
    /\ workedIntervals > 0
    /\ now >= workedInterval[1] + 1
    /\ totalWorkedToday < MaxTicks
    /\ totalWorkedToday' = tickUpdater(totalWorkedToday)
    /\ workedInterval' = <<now>>
    /\ pending' = {"totalWorkedToday"}
    /\ UNCHANGED <<view, now, tz, currentTime, clockInTime, clockOutTime,
                   weeklyHours, hourlyRate, storage, displayTimer, lastSaved,
                   displayIntervals, workedIntervals>>
    /\ screen' = Render(totalWorkedToday', weeklyHours', hourlyRate')

(***************************************************************************)
(* User events.                                                            *)
(***************************************************************************)
\* the value handleClockIn passes to setTotalWorkedToday
\* (a handler that leaves the counter alone)
clockInTotal_kept == totalWorkedToday
clockInTotal == 0

handleClockIn ==
    /\ clockInTime' = <<now>>
    /\ clockOutTime' = Null
    /\ totalWorkedToday' = clockInTotal
    /\ UNCHANGED <<weeklyHours, hourlyRate>>
    /\ RunEffects({"clockInTime"}
                    \cup (IF clockOutTime # Null THEN {"clockOutTime"} ELSE {})
                    \cup (IF totalWorkedToday # clockInTotal
                          THEN {"totalWorkedToday"} ELSE {}),
                  clockInTime', clockOutTime', totalWorkedToday',
                  weeklyHours', hourlyRate')

ClockIn ==
    /\ Ready
    /\ ~ClockInDisabled
    /\ handleClockIn
    /\ screen' = Render(totalWorkedToday', weeklyHours', hourlyRate')
    /\ UNCHANGED <<view, pending, now, tz, currentTime, displayTimer, displayIntervals>>

\* the index computed one day off
todayIndex_offByOne == getDay(now) - 2
todayIndex == getDay(now) - 1
workedToday == (differenceInSeconds(now, clockInTime[1]) * HourScale) \div 3600
\* the updater that adds to the slot instead of replacing it
newWeekly_accumulate(prev) == [prev EXCEPT ![todayIndex + 1] = @ + workedToday]
\* the updater handleClockOut passes to setWeeklyHours
newWeekly(prev) == [prev EXCEPT ![todayIndex + 1] = workedToday]

handleClockOut ==
    /\ clockOutTime' = <<now>>
    /\ IF clockInTime # Null /\ todayIndex >= 0 /\ todayIndex < 5
       THEN weeklyHours' = newWeekly(weeklyHours)
       ELSE UNCHANGED weeklyHours
    /\ UNCHANGED <<clockInTime, totalWorkedToday, hourlyRate>>
    /\ RunEffects({"clockOutTime"}
                    \cup (IF clockInTime # Null /\ todayIndex >= 0 /\ todayIndex < 5
                          THEN {"weeklyHours"} ELSE {}),
                  clockInTime', clockOutTime', totalWorkedToday',
                  weeklyHours', hourlyRate')

ClockOut ==
    /\ Ready
    /\ ~ClockOutDisabled
    /\ handleClockOut
    /\ screen' = Render(totalWorkedToday', weeklyHours', hourlyRate')
    /\ UNCHANGED <<view, pending, now, tz, currentTime, displayTimer, displayIntervals>>

\* onChange={(e) => setHourlyRate(Number(e.target.value))}
RateEdit ==
    /\ Ready
    /\ \E r \in Rates :
         /\ r # hourlyRate
         /\ hourlyRate' = r
    /\ UNCHANGED <<clockInTime, clockOutTime, totalWorkedToday, weeklyHours>>
    /\ RunEffects({"hourlyRate"}, clockInTime', clockOutTime', totalWorkedToday',
                  weeklyHours', hourlyRate')
    /\ screen' = Render(totalWorkedToday', weeklyHours', hourlyRate')
    /\ UNCHANGED <<view, pending, now, tz, currentTime, displayTimer, displayIntervals>>

Next ==
    \/ AdvanceTime
    \/ Mount
    \/ MountEffects
    \/ FlushPassiveEffects
    \/ Unmount
    \/ DisplayTick
    \/ WorkedTick
    \/ ClockIn
    \/ ClockOut
    \/ RateEdit

Spec == Init /\ [][Next]_vars

(***************************************************************************)
(* The click handlers as functions of the state they close over: the view  *)
(* is mounted on an arbitrary session and one of the buttons is clicked.   *)
(***************************************************************************)
AnyWeekly == {<<0, 0, 0, 0, 0>>,
              <<2 * HourScale, 0, 0, 0, HourScale>>,
              <<HourScale, HourScale, HourScale, HourScale, 3 * HourScale>>}
Earlier == {Null} \cup {<<t>> : t \in {i \in Instants(tz) : i < now}}

InitHandlers ==
    /\ view = "mounted"
    /\ pending = {}
    /\ tz \in TzOffsets
    /\ now \in Instants(tz)
    /\ currentTime = now
    /\ clockInTime \in Earlier
    /\ clockOutTime \in Earlier
    /\ totalWorkedToday \in 0..MaxTicks
    /\ weeklyHours \in AnyWeekly
    /\ hourlyRate \in Rates
    /\ storage = saveToStorage(dataToStore(clockInTime, clockOutTime,
                                           totalWorkedToday, weeklyHours, hourlyRate))
    /\ displayTimer = TRUE
    /\ workedInterval = WorkedEffect(clockInTime, clockOutTime)
    /\ lastSaved = session
    /\ displayIntervals = 1
    /\ workedIntervals = IF workedInterval # Null THEN 1 ELSE 0
    /\ screen = Render(totalWorkedToday, weeklyHours, hourlyRate)

NextHandlers ==
    \/ ClockIn
    \/ ClockOut

SpecHandlers == InitHandlers /\ [][NextHandlers]_vars

(***************************************************************************)
(* The derived values as functions of the state rendered: the view is      *)
(* mounted on a session with a long elapsed time, whole hours in the week  *)
(* and an edited rate, and is rendered again after an event.               *)
(***************************************************************************)
\* seconds around the minute, the hour, the day and 100 hours
ElapsedInputs == {0, 59, 60, 3599, 3600, 3661, 86399, 86400, 90061, 359999, 360000}
WholeWeeks == {<<0, 0, 0, 0, 0>>,
               <<8 * HourScale, 8 * HourScale, 8 * HourScale, 8 * HourScale, 8 * HourScale>>,
               <<HourScale, 2 * HourScale, 3 * HourScale, 4 * HourScale, 5 * HourScale>>}

InitRender ==
    /\ view = "mounted"
    /\ pending = {}
    /\ tz \in TzOffsets
    /\ now \in Instants(tz)
    /\ currentTime = now
    /\ clockInTime \in Earlier
    /\ clockOutTime = Null
    /\ totalWorkedToday \in ElapsedInputs
    /\ weeklyHours \in WholeWeeks
    /\ hourlyRate \in Rates \ {15}
    /\ storage = saveToStorage(dataToStore(clockInTime, clockOutTime,
                                           totalWorkedToday, weeklyHours, hourlyRate))
    /\ displayTimer = TRUE
    /\ workedInterval = WorkedEffect(clockInTime, clockOutTime)
    /\ lastSaved = session
    /\ displayIntervals = 1
    /\ workedIntervals = IF workedInterval # Null THEN 1 ELSE 0
    /\ screen = Render(totalWorkedToday, weeklyHours, hourlyRate)

NextRender ==
    \/ ClockIn
    \/ ClockOut
    \/ RateEdit

SpecRender == InitRender /\ [][NextRender]_vars

(***************************************************************************)
(* The program started on what another writer left under STORAGE_KEY:      *)
(* nothing, the empty string, or a record cut short.                       *)
(***************************************************************************)
MalformedTexts ==
    { << <<"clockInTime">> >>,
      << <<"clockInTime", Null>>, <<"clockOutTime", Null>>, <<"totalWorkedToday">> >> }
StoredTexts == {Null, EmptyText} \cup MalformedTexts

InitStored ==
    /\ view = "unmounted"
    /\ pending = {}
    /\ tz \in TzOffsets
    /\ now \in Instants(tz)
    /\ currentTime = now
    /\ clockInTime = Null
    /\ clockOutTime = Null
    /\ totalWorkedToday = 0
    /\ weeklyHours = <<0, 0, 0, 0, 0>>
    /\ hourlyRate = 15
    /\ storage \in StoredTexts
    /\ displayTimer = FALSE
    /\ workedInterval = Null
    /\ lastSaved = Null
    /\ displayIntervals = 0
    /\ workedIntervals = 0
    /\ screen = NoScreen

NextStored ==
    \/ AdvanceTime
    \/ Mount
    \/ MountEffects
    \/ MountEffectsThrow
    \/ FlushPassiveEffects
    \/ Unmount
    \/ DisplayTick
    \/ WorkedTick
    \/ ClockIn
    \/ ClockOut
    \/ RateEdit

SpecStored == InitStored /\ [][NextStored]_vars

(***************************************************************************)
(* Properties.                                                             *)
(***************************************************************************)
Active == clockInTime # Null /\ clockOutTime = Null
\* a step taken inside one mounted view (neither a mount nor an unmount)
InView == view = "mounted" /\ view' = "mounted"
Weekdays == 1..5
InWorkingWindow(t) == getHours(t) >= 9 /\ getHours(t) < 17 /\ getDay(t) \in Weekdays
StoredOf(ci, co, tw, wh, hr) == saveToStorage(dataToStore(ci, co, tw, wh, hr))

\* C1: a clock-in takes effect only when no session is active and a
\* clock-out only when a session is active (clockInTime set, clockOutTime
\* absent); so the clockInTime of an active session is never overwritten and
\* a clockOutTime that is set is never set again.
C1_ClockGuards ==
    [][InView =>
         /\ (clockInTime' # clockInTime => ~Active)
         /\ (clockOutTime' # clockOutTime /\ clockOutTime' # Null => Active)
         /\ (Active /\ Active' => clockInTime' = clockInTime)
         /\ (clockOutTime # Null /\ clockOutTime' # Null => clockOutTime' = clockOutTime)]_vars
\* a session that was clocked in and then clocked out in this view
C1_Witness ==
    /\ view = "mounted"
    /\ clockInTime # Null
    /\ clockOutTime = <<now>>
    /\ clockInTime[1] < now

\* C2: every clockInTime recorded by a clock-in has a local hour h with
\* 9 <= h < 17 on a day Monday..Friday.
C2_ClockInWithinWorkingHours ==
    clockInTime # Null => InWorkingWindow(clockInTime[1])

\* C3: with clockInTime and clockOutTime both set and the current time (the
\* wall clock and the displayed clock) within working hours on a weekday,
\* the Clock In button is enabled.
C3_ClockInAfterClockOut ==
    (/\ Ready
     /\ clockInTime # Null
     /\ clockOutTime # Null
     /\ InWorkingWindow(now)
     /\ InWorkingWindow(currentTime)) => ~ClockInDisabled

\* C4: a clock-in sets clockInTime to the current time, clockOutTime to
\* absent and totalWorkedToday to 0, whatever they were, and leaves
\* weeklyHours and hourlyRate as they were.
C4_ClockInEffect ==
    [][InView /\ clockInTime' # clockInTime =>
         /\ clockInTime' = <<now>>
         /\ clockOutTime' = Null
         /\ totalWorkedToday' = 0
         /\ weeklyHours' = weeklyHours
         /\ hourlyRate' = hourlyRate]_vars
\* a clock-in has acted (InitHandlers has no clockInTime equal to now) on a
\* session with recorded weekly hours and an edited rate
C4_Witness ==
    /\ clockInTime = <<now>>
    /\ clockOutTime = Null
    /\ totalWorkedToday = 0
    /\ weeklyHours # <<0, 0, 0, 0, 0>>
    /\ hourlyRate # 15

\* C5: a clock-out on Monday..Friday sets clockOutTime to now and replaces
\* the entry of that weekday by (now - clockInTime) seconds / 3600, whatever
\* the entry held; the other four entries keep their values.
C5_WeekdayClockOut ==
    [][(/\ InView
        /\ clockOutTime' # clockOutTime
        /\ clockOutTime' # Null
        /\ getDay(now) \in Weekdays) =>
         /\ clockOutTime' = <<now>>
         /\ weeklyHours'[getDay(now)] * 3600 = (now - clockInTime[1]) * HourScale
         /\ \A i \in 1..5 : i # getDay(now) => weeklyHours'[i] = weeklyHours[i]
         /\ Len(weeklyHours') = 5]_vars
\* a clock-out has acted on a weekday (InitHandlers has no clockOutTime equal
\* to now) on a session whose slots held other hours before
C5_Witness ==
    /\ clockOutTime = <<now>>
    /\ clockInTime # Null
    /\ getDay(now) \in Weekdays
    /\ weeklyHours \notin AnyWeekly
    /\ weeklyHours[getDay(now)] > 0
    /\ \E i \in 1..5 : i # getDay(now) /\ weeklyHours[i] > 0

C7_TicksOnlyWhileActive ==
    [][InView =>
         /\ (totalWorkedToday' # totalWorkedToday =>
               \/ Active /\ Active' /\ totalWorkedToday' = totalWorkedToday + 1
               \/ clockInTime' # clockInTime /\ totalWorkedToday' = 0)
         /\ (clockOutTime # Null /\ clockInTime' = clockInTime =>
               totalWorkedToday' = totalWorkedToday)]_vars
\* a session was clocked out after ticks and the wall clock has moved on,
\* no interval being left
C7_Witness ==
    /\ Ready
    /\ clockOutTime # Null
    /\ totalWorkedToday > 0
    /\ now > clockOutTime[1]
    /\ workedInterval = Null

\* C8: mounting a fresh view on a stored record yields, in all five fields,
\* the state that was last saved.
C8_SaveLoadRoundTrip ==
    [][view = "rendered" /\ view' = "mounted" /\ storage # Null =>
         session' = lastSaved]_vars
\* a view just mounted on the record of a clocked-out session with ticks,
\* recorded hours and an edited rate
C8_Witness ==
    /\ view = "mounted"
    /\ "weeklyHours" \in pending
    /\ clockInTime # Null
    /\ clockOutTime # Null
    /\ totalWorkedToday > 0
    /\ weeklyHours # <<0, 0, 0, 0, 0>>
    /\ hourlyRate # 15

\* C9: whenever the view is mounted and no effect is pending, the stored
\* record is the record of the in-memory state.
C9_StoredEqualsState ==
    Ready => storage = StoredOf(clockInTime, clockOutTime, totalWorkedToday,
                                weeklyHours, hourlyRate)
\* every field has been changed and saved
C9_Witness ==
    /\ Ready
    /\ clockOutTime # Null
    /\ totalWorkedToday > 0
    /\ weeklyHours # <<0, 0, 0, 0, 0>>
    /\ hourlyRate # 15

\* C10: in memory and in the stored record, clockOutTime is absent whenever
\* clockInTime is absent.
C10_NoClockOutWithoutClockIn ==
    /\ clockInTime = Null => clockOutTime = Null
    /\ storage # Null =>
         (Member(storage, "clockInTime") = Null => Member(storage, "clockOutTime") = Null)
\* a view reloaded from the record of a clocked-out session, its effects
\* still pending
C10_Witness ==
    /\ view = "mounted"
    /\ "clockOutTime" \in pending
    /\ clockInTime # Null
    /\ clockOutTime # Null
    /\ storage # Null

\* C11: with no record stored, load returns the defaults and the view that
\* mounts starts with clockInTime absent, clockOutTime absent,
\* totalWorkedToday 0, five zero weeklyHours and hourlyRate 15: no session
\* is active.
C11_DefaultsWhenNothingStored ==
    [][view = "rendered" /\ view' = "mounted" /\ storage = Null =>
         /\ clockInTime' = Null
         /\ clockOutTime' = Null
         /\ totalWorkedToday' = 0
         /\ weeklyHours' = <<0, 0, 0, 0, 0>>
         /\ hourlyRate' = 15
         /\ ~Active']_vars
\* a view whose mount effects have just run and left the default state
C11_Witness ==
    /\ view = "mounted"
    /\ pending = {"weeklyHours"}
    /\ session = <<Null, Null, 0, <<0, 0, 0, 0, 0>>, 15>>
    /\ lastSaved = session
    /\ currentTime = now

\* C12 (as claimed): over a stored text that JSON.parse rejects, the load
\* ends in the parse error and the view never mounts on a default state.
C12_MalformedNeverMounts ==
    [][view = "rendered" /\ storage # Null /\ JSONparseThrows(storage) =>
         view' # "mounted"]_vars
\* C12 (amended): over a stored text other than the empty string that
\* JSON.parse rejects, the load ends in the parse error: the view never
\* mounts, no default state is applied and the text stays as it is; the
\* empty string is taken for no record and the view mounts on the defaults.
C12_NonEmptyMalformedNeverMounts ==
    [][view = "rendered" =>
         /\ (storage \notin {Null, EmptyText} /\ JSONparseThrows(storage) =>
               /\ view' # "mounted"
               /\ storage' = storage
               /\ session' = session)
         /\ (storage = EmptyText /\ view' = "mounted" =>
               session' = <<Null, Null, 0, <<0, 0, 0, 0, 0>>, 15>>)]_vars
\* the load effect threw over a record cut short, which is still stored
C12_Witness ==
    /\ view = "failed"
    /\ storage \in MalformedTexts

\* reading a text of the screen back
DigitChars == {Digits[i] : i \in 1..10}
DigitValue(c) == CHOOSE d \in 0..9 : Digits[d + 1] = c
RECURSIVE NatOf(_)
NatOf(s) ==
    IF s = <<>> THEN 0 ELSE 10 * NatOf(SubSeq(s, 1, Len(s) - 1)) + DigitValue(s[Len(s)])
AllDigits(s) == Len(s) > 0 /\ \A i \in 1..Len(s) : s[i] \in DigitChars
Positions(text, c) == {i \in 1..Len(text) : text[i] = c}
Least(S) == CHOOSE x \in S : \A y \in S : x <= y
Greatest(S) == CHOOSE x \in S : \A y \in S : x >= y

\* C13: the elapsed time n is shown as H:M:S with H = n div 3600,
\* M = (n mod 3600) div 60 and S = n mod 60, so 3600*H + 60*M + S = n with
\* M < 60 and S < 60; each field has at least 2 digits, zeros being added
\* only to reach 2, and H is not reduced modulo 24.
C13_FormatElapsed ==
    view = "mounted" =>
      LET e == screen.elapsed
          n == totalWorkedToday
          colons == Positions(e, ":")
      IN /\ Cardinality(colons) = 2
         /\ LET H == SubSeq(e, 1, Least(colons) - 1)
                M == SubSeq(e, Least(colons) + 1, Greatest(colons) - 1)
                S == SubSeq(e, Greatest(colons) + 1, Len(e))
            IN /\ AllDigits(H) /\ AllDigits(M) /\ AllDigits(S)
               /\ Len(H) >= 2 /\ Len(M) = 2 /\ Len(S) = 2
               /\ Len(H) > 2 => H[1] # "0"
               /\ NatOf(H) = n \div 3600
               /\ NatOf(M) = (n % 3600) \div 60
               /\ NatOf(S) = n % 60
               /\ 3600 * NatOf(H) + 60 * NatOf(M) + NatOf(S) = n
               /\ NatOf(M) < 60 /\ NatOf(S) < 60
\* 100 hours, rendered again after the rate was set back to 15
C13_Witness ==
    /\ view = "mounted"
    /\ hourlyRate = 15
    /\ totalWorkedToday = 360000
    /\ screen.elapsed = <<"1", "0", "0", ":", "0", "0", ":", "0", "0">>

\* C14: the weekly earnings shown are the sum over the five slots of
\* weeklyHours[i] * hourlyRate to 2 decimals: exactly that sum when the hours
\* are whole, and within half a hundredth of it otherwise.
C14_WeeklyEarnings ==
    view = "mounted" =>
      LET w == screen.weekly
          negative == w[1] = "-"
          body == IF negative THEN Tail(w) ELSE w
          dots == Positions(body, ".")
          sum == weeklyHours[1] * hourlyRate + weeklyHours[2] * hourlyRate
                   + weeklyHours[3] * hourlyRate + weeklyHours[4] * hourlyRate
                   + weeklyHours[5] * hourlyRate
      IN /\ Cardinality(dots) = 1
         /\ LET whole == SubSeq(body, 1, Least(dots) - 1)
                frac == SubSeq(body, Least(dots) + 1, Len(body))
                magnitude == 100 * NatOf(whole) + NatOf(frac)
                hundredths == IF negative THEN 0 - magnitude ELSE magnitude
                distance == hundredths * HourScale - 100 * sum
            IN /\ AllDigits(whole) /\ AllDigits(frac) /\ Len(frac) = 2
               /\ negative <=> sum < 0
               /\ 2 * distance <= HourScale /\ 2 * distance >= 0 - HourScale
               /\ (\A i \in 1..5 : weeklyHours[i] % HourScale = 0) =>
                     hundredths = 100 * ((weeklyHours[1] \div HourScale) * hourlyRate
                                         + (weeklyHours[2] \div HourScale) * hourlyRate
                                         + (weeklyHours[3] \div HourScale) * hourlyRate
                                         + (weeklyHours[4] \div HourScale) * hourlyRate
                                         + (weeklyHours[5] \div HourScale) * hourlyRate)
\* five days of 8 hours, rendered after the rate was set to 15: 600.00
C14_Witness ==
    /\ view = "mounted"
    /\ weeklyHours = <<8 * HourScale, 8 * HourScale, 8 * HourScale, 8 * HourScale, 8 * HourScale>>
    /\ hourlyRate = 15
    /\ screen.weekly = <<"6", "0", "0", ".", "0", "0">>

\* C15: at most one worked-time interval and one display-clock interval are
\* scheduled; none is left once the view is unmounted and no worked-time
\* interval once the session is clocked out; the counter is incremented
\* (other than by the load of a mount) and the displayed clock changed only
\* while the interval of the callback is scheduled in a mounted view.
C15_TimerTeardown ==
    /\ [](/\ workedIntervals \in {0, 1}
          /\ displayIntervals \in {0, 1}
          /\ (view = "unmounted" => workedIntervals = 0 /\ displayIntervals = 0)
          /\ (clockOutTime # Null => workedIntervals = 0)
          /\ (workedIntervals = 1 => workedInterval # Null /\ view = "mounted")
          /\ (displayIntervals = 1 => displayTimer /\ view = "mounted"))
    /\ [][/\ (totalWorkedToday' = totalWorkedToday + 1 /\ view # "rendered" =>
                workedIntervals = 1 /\ view = "mounted" /\ view' = "mounted")
           /\ (currentTime' # currentTime /\ view # "unmounted" =>
                displayIntervals = 1 /\ view = "mounted" /\ view' = "mounted")]_vars
\* a session with ticks was clocked out: its interval is gone, the display
\* clock still runs
C15_Witness ==
    /\ Ready
    /\ clockOutTime # Null
    /\ totalWorkedToday > 0
    /\ workedIntervals = 0
    /\ displayIntervals = 1

\* C16: hourlyRate is never negative, in memory or in the stored record.
C16_RateNonNegative ==
    /\ hourlyRate >= 0
    /\ storage # Null => Member(storage, "hourlyRate") >= 0

\* C17: the effects of a mount over a stored record leave that record as it
\* was.
C17_MountKeepsRecord ==
    [][view = "rendered" /\ view' = "mounted" /\ storage # Null =>
         storage' = storage]_vars

\* C18: totalWorkedToday is at most the seconds since clockInTime while the
\* session is active, and at most clockOutTime - clockInTime once it is
\* clocked out, in memory and in the stored record.
C18_WorkedWithinSession ==
    /\ Active => totalWorkedToday <= now - clockInTime[1]
    /\ clockInTime # Null /\ clockOutTime # Null =>
         totalWorkedToday <= clockOutTime[1] - clockInTime[1]
    /\ storage # Null /\ Member(storage, "clockInTime") # Null =>
         Member(storage, "totalWorkedToday")
           <= (IF Member(storage, "clockOutTime") # Null
               THEN DateParse(Member(storage, "clockOutTime"))
               ELSE now) - DateParse(Member(storage, "clockInTime"))
\* a session reloaded by a later view, every second of it counted
C18_Witness ==
    /\ view = "mounted"
    /\ "clockInTime" \in pending
    /\ Active
    /\ totalWorkedToday > 0
    /\ totalWorkedToday = now - clockInTime[1]

\* C19: a clock-out writes only the slot of the weekday of the clock-in,
\* and at most 8 hours.
C19_SlotOfClockInDay ==
    [][InView =>
         \A i \in 1..5 :
            weeklyHours'[i] # weeklyHours[i] =>
              /\ clockInTime # Null
              /\ i = getDay(clockInTime[1])
              /\ weeklyHours'[i] <= 8 * HourScale]_vars

====
